---- MODULE Spec2Model ----
(***************************************************************************)
(* Model of the daily movement planner (optimizer/advance_planner.py) and  *)
(* of the day loop that drives it (optimizer/supply_chain_optimizer.py,    *)
(* optimizer/session_manager.py).                                          *)
(*                                                                         *)
(* Spec is the whole run: session start, the day loop, session teardown.   *)
(* PlannerSpec is the planner alone: it is constructed over a network and  *)
(* create_movements is called once, for any day and demand list.           *)
(*                                                                         *)
(* Numbers.  Quantities, levels and capacities are Python floats in the    *)
(* source.  Here they are integers, and a product with a fill ratio is     *)
(* carried in hundredths (x * 0.88 is x * 88 hundredths), so that every    *)
(* comparison of the source is made exactly.  The input data are chosen    *)
(* as multiples of 25^3 (or too small to be moved at all), which keeps     *)
(* every committed quantity an integer for the days the model runs; the   *)
(* invariant ArithmeticExact states it.  Scores are only ever compared;    *)
(* they are fixed-point numbers with FScale units per 1.0.                 *)
(***************************************************************************)
EXTENDS Integers, Sequences, FiniteSets, TLC

VARIABLES
    net,                    \* DataLoader.load_data(): facilities' capacities and the connections
    level,                  \* Facility.current_level of every facility
    active_demands,         \* SupplyChainOptimizer.active_demands
    current_day,            \* SupplyChainOptimizer.current_day
    session_id,             \* SessionManager.session_id (FALSE: None)
    pc,                     \* position of SupplyChainOptimizer.run
    result,                 \* what make_move returned: None, or a response with its 'demands'
    opportunities,          \* create_movements: the pool
    facilities_delta,       \* create_movements: the per-facility delta accumulator
    movements,              \* create_movements: the movement list (returned to run)
    movement_count,         \* create_movements: movement_count
    processed_connections,  \* create_movements: the (source, destination) pairs used
    path_index,             \* AdvancedPlanner.path_distances, the cached hop counts
    calls,                  \* the requests sent to the game service, in order
    in_flight,              \* the days of the round requests sent and not yet answered
    stopped_by,             \* how run() left its day loop ("none": it has not)
    before,                 \* history: the day, the levels and the demands when the last planning pass began
    last_answer,            \* start_session: how the last begin-session request was answered ("none": none sent)
    headers,                \* SessionManager.headers: the names of the headers set
    prioritized_demands     \* create_movements: the demands in the order _prioritize_demands returned

vars == <<net, level, active_demands, current_day, session_id, pc, result,
          opportunities, facilities_delta, movements, movement_count,
          processed_connections, path_index, calls, in_flight, stopped_by, before,
          last_answer, headers, prioritized_demands>>

planner_vars == <<opportunities, facilities_delta, movements, movement_count,
                  processed_connections, prioritized_demands>>

(***************************************************************************)
(* Bounds and program constants                                            *)
(***************************************************************************)
total_days == 3                 \* days the run processes (main.py runs 42)

max_fill_ratio == 88            \* percent
min_fill_ratio == 15            \* percent
min_movement == 75
max_movements_per_day == 3
LargeCapacity == 400            \* storage facility threshold
max_retries == 3                \* start_session(max_retries=3)
SizeNormalizer == 500           \* size score normaliser

K == 25 * 25 * 25               \* lot size of the input data
FScale == 10 ^ 6                \* fixed-point units per 1.0 of a score

Min(a, b) == IF a <= b THEN a ELSE b
Abs(a) == IF a >= 0 THEN a ELSE -a
Range(s) == {s[i] : i \in 1..Len(s)}

RECURSIVE FracDigits(_, _, _)
FracDigits(r, b, n) ==
    IF n = 0 THEN 0
    ELSE ((r * 10) \div b) * (10 ^ (n - 1)) + FracDigits((r * 10) % b, b, n - 1)

\* a / b as a fixed-point number, b > 0
FDiv(a, b) ==
    IF a >= 0 THEN (a \div b) * FScale + FracDigits(a % b, b, 6)
    ELSE -((-a \div b) * FScale + FracDigits((-a) % b, b, 6))

(***************************************************************************)
(* Input data                                                              *)
(***************************************************************************)
\* mutant: the remainder starts one unit above the ordered quantity
Demand_remaining_above(id, customer_id, quantity, post_day, start_day, end_day) ==
    [id |-> id, customer_id |-> customer_id, quantity |-> quantity,
     post_day |-> post_day, start_delivery_day |-> start_day,
     end_delivery_day |-> end_day, remaining_quantity |-> quantity + 1]

\* Demand.__post_init__: remaining_quantity is None, so it becomes quantity
Demand(id, customer_id, quantity, post_day, start_day, end_day) ==
    [id |-> id, customer_id |-> customer_id, quantity |-> quantity,
     post_day |-> post_day, start_delivery_day |-> start_day,
     end_delivery_day |-> end_day, remaining_quantity |-> quantity]

Connection(id, source_id, destination_id, lead_time, max_capacity, distance) ==
    [id |-> id, source_id |-> source_id, destination_id |-> destination_id,
     lead_time |-> lead_time, max_capacity |-> max_capacity, distance |-> distance]

\* a refinery R, a tank T and two customers A and B
MainNet ==
    [facilities |-> {"R", "T", "A", "B"},
     capacity |-> [f \in {"R", "T", "A", "B"} |->
                     IF f \in {"R", "T"} THEN 8 * K ELSE 4 * K],
     connections |-> << Connection("c1", "R", "T", 3, 4 * K, 10),
                        Connection("c2", "R", "A", 0, 2 * K, 1),
                        Connection("c3", "R", "B", 0, 2 * K, 2),
                        Connection("c4", "T", "A", 0, 4 * K, 1),
                        Connection("c5", "T", "B", 0, 4 * K, 2) >>]

\* the two-facility scenario of the specification's testable properties
ScenarioNet ==
    [facilities |-> {"A", "B"},
     capacity |-> [f \in {"A", "B"} |-> IF f = "A" THEN 200 ELSE 150],
     connections |-> << Connection("l1", "A", "B", 1, 80, 10) >>]

ScenarioDemand == Demand("s1", "B", 60, 0, 1, 5)

dT == Demand("dT", "T", 4 * K, 0, 1, 3)
dA == Demand("dA", "A", 2 * K, 0, 1, 2)
dB == Demand("dB", "B", 2 * K, 0, 1, 1)
dA2 == Demand("dA2", "A", 2 * K, 1, 1, 2)
dSmall == Demand("dSmall", "B", 60, 1, 2, 3)
dZero == Demand("dZero", "A", 0, 1, 2, 3)
dLate == Demand("dLate", "B", 2 * K, 1, 0, 0)

InitialData ==
    { [net |-> MainNet,
       level |-> [f \in MainNet.facilities |->
                    IF f = "R" THEN r ELSE IF f = "T" THEN t ELSE 0],
       demands |-> ds] :
         r \in {8 * K, 4 * K}, t \in {2 * K, 4 * K},
         ds \in { <<dT, dA, dB>>, <<dT, dA>>, <<dA, dB>>, <<>> } }
    \cup
    { [net |-> ScenarioNet,
       level |-> [f \in ScenarioNet.facilities |-> IF f = "A" THEN 100 ELSE 0],
       demands |-> <<ScenarioDemand>>] }

None == [none |-> TRUE, demands |-> <<>>]

\* the parsed body {}: a response without 'demands', 'penalties' and KPI entries
EmptyObject == [none |-> FALSE, demands |-> <<>>, empty |-> TRUE]

\* bool(result) of run()'s "if not result": None and the empty dict are false
truthy(r) == ~r.none /\ "empty" \notin DOMAIN r

\* a request to the game service: op is "start", "end" or "round"; a round
\* request carries its day and its movement list
Call(op, day, ms) == [op |-> op, day |-> day, movements |-> ms]
StartCall == Call("start", -1, <<>>)
EndCall == Call("end", -1, <<>>)

\* the 'demands' list a round response can carry
ResponseDemands(n) ==
    IF n = ScenarioNet THEN { <<>> }
    ELSE { <<>>, <<dA2>>, <<dT, dSmall>>, <<dZero, dLate>> }

(***************************************************************************)
(* AdvancedPlanner: cached network structure                               *)
(***************************************************************************)
\* connections_map.get((source, destination)): the sequence of matching rows
ConnectionsOf(n, s, d) ==
    SelectSeq(n.connections, LAMBDA c : c.source_id = s /\ c.destination_id = d)

HasConnection(n, s, d) == ConnectionsOf(n, s, d) # <<>>

\* a later row of the same pair overwrites an earlier one
connections_map(n, s, d) ==
    LET cs == ConnectionsOf(n, s, d) IN cs[Len(cs)]

\* valid_connections[source][destination]: the connection id
valid_connections(n, s, d) == connections_map(n, s, d).id

\* mutant: every row of the links adds to the list, also a repeated pair
Dedup_keeps_all(s) == s

\* the keys of connections_map, a dict: a pair is listed once, where it first occurred
RECURSIVE Dedup(_)
Dedup(s) ==
    IF s = <<>> THEN <<>>
    ELSE LET front == Dedup(SubSeq(s, 1, Len(s) - 1))
             x == s[Len(s)]
         IN IF x \in Range(front) THEN front ELSE Append(front, x)

\* dest_to_source[d]: the sources with a link into d, in the order of connections_map
dest_to_source(n, d) ==
    LET rows == SelectSeq(n.connections, LAMBDA c : c.destination_id = d)
    IN Dedup([i \in 1..Len(rows) |-> rows[i].source_id])

\* source_to_dest[s]: the destinations s has a link to, in the order of connections_map
source_to_dest(n, s) ==
    LET rows == SelectSeq(n.connections, LAMBDA c : c.source_id = s)
    IN Dedup([i \in 1..Len(rows) |-> rows[i].destination_id])

\* mutant: the traversal takes the newest entry of the queue (queue.pop())
RECURSIVE bfs_newest_first(_, _, _, _)
bfs_newest_first(n, queue, seen, distances) ==
    IF queue = <<>> THEN distances
    ELSE LET node == queue[Len(queue)][1]
             dist == queue[Len(queue)][2]
             fresh == SelectSeq(source_to_dest(n, node), LAMBDA x : x \notin seen)
         IN bfs_newest_first(n,
                SubSeq(queue, 1, Len(queue) - 1)
                    \o [i \in 1..Len(fresh) |-> <<fresh[i], dist + 1>>],
                seen \cup Range(fresh),
                (node :> dist) @@ distances)

\* bfs(start) of _calculate_path_distances: queue holds <<node, dist>>
RECURSIVE bfs(_, _, _, _)
bfs(n, queue, seen, distances) ==
    IF queue = <<>> THEN distances
    ELSE LET node == queue[1][1]
             dist == queue[1][2]
             fresh == SelectSeq(source_to_dest(n, node), LAMBDA x : x \notin seen)
         IN bfs(n,
                Tail(queue) \o [i \in 1..Len(fresh) |-> <<fresh[i], dist + 1>>],
                seen \cup Range(fresh),
                (node :> dist) @@ distances)

\* mutant: the start node is queued at distance 1
path_distances_start_at_one(n) ==
    [start \in n.facilities |-> bfs(n, << <<start, 1>> >>, {start}, [x \in {} |-> 0])]

\* path_distances: [start -> [reached node -> hops]]; an absent pair is not in the DOMAIN
path_distances(n) ==
    [start \in n.facilities |-> bfs(n, << <<start, 0>> >>, {start}, [x \in {} |-> 0])]

storage_facilities(n) ==
    {fid \in n.facilities :
        /\ Len(source_to_dest(n, fid)) > 2
        /\ n.capacity[fid] >= LargeCapacity}

\* _calculate_demand_efficiency, as a fixed-point number
demand_efficiency(n, demand) ==
    LET pd == path_index
        reach == {pd[s][demand.customer_id] :
                    s \in {x \in storage_facilities(n) : demand.customer_id \in DOMAIN pd[x]}}
    IN IF reach = {} THEN 0
       ELSE LET min_distance == CHOOSE d \in reach : \A e \in reach : d <= e
            IN FDiv(1, min_distance + 1)

\* the combined score of _prioritize_demands, times 10
demand_score(n, demand, day) ==
    LET days_left == demand.end_delivery_day - day
        urgency == IF days_left <= 0 THEN FScale ELSE FDiv(1, days_left + 1)
        efficiency == demand_efficiency(n, demand)
        progress == FScale - FDiv(demand.remaining_quantity, demand.quantity)
        size_score == Min(FScale, FDiv(demand.remaining_quantity, SizeNormalizer))
    IN urgency * 4 + efficiency * 3 + progress * 2 + size_score * 1

\* mutant: sorted without reverse=True
RECURSIVE AscendingOrders(_, _)
AscendingOrders(S, score) ==
    IF S = {} THEN { <<>> }
    ELSE UNION { { <<i>> \o t : t \in AscendingOrders(S \ {i}, score) } :
                 i \in {j \in S : \A k \in S : score[j] <= score[k]} }

\* the orders sorted(scored_demands, reverse=True) can give to the indices in S:
\* descending score; equal scores fall back on id(demand), an address
RECURSIVE DescendingOrders(_, _)
DescendingOrders(S, score) ==
    IF S = {} THEN { <<>> }
    ELSE UNION { { <<i>> \o t : t \in DescendingOrders(S \ {i}, score) } :
                 i \in {j \in S : \A k \in S : score[k] <= score[j]} }

\* _prioritize_demands: the possible results, as sequences of indices into demands
prioritize_demands(n, demands, day) ==
    LET live == {i \in 1..Len(demands) : demands[i].remaining_quantity > 0}
        score == [i \in live |-> demand_score(n, demands[i], day)]
    IN DescendingOrders(live, score)

(***************************************************************************)
(* AdvancedPlanner: opportunities                                          *)
(***************************************************************************)
\* MovementOpportunity.__lt__: "higher score is better, so reverse comparison"
opportunity_lt(a, b) == a.score > b.score

\* list.sort(reverse=True): stable, descending in the order that __lt__ defines.
\* x is put before the first element that __lt__ places below it.
RECURSIVE sort_reverse(_)
sort_reverse(s) ==
    IF s = <<>> THEN <<>>
    ELSE LET sorted == sort_reverse(SubSeq(s, 1, Len(s) - 1))
             x == s[Len(s)]
             below == {i \in 1..Len(sorted) : opportunity_lt(sorted[i], x)}
             at == IF below = {} THEN Len(sorted) + 1
                   ELSE CHOOSE i \in below : \A j \in below : i <= j
         IN SubSeq(sorted, 1, at - 1) \o <<x>> \o SubSeq(sorted, at, Len(sorted))

\* mutant: the room left at the destination is not taken into account
safe_quantity100_without_room(n, lvl, delta, demand, connection) ==
    LET source_effective == lvl[connection.source_id] + delta[connection.source_id]
    IN Min(Min(demand.remaining_quantity * 100,
               source_effective * max_fill_ratio),
           connection.max_capacity * max_fill_ratio)

\* the safe quantity of _generate_opportunities_for_demand, in hundredths
safe_quantity100(n, lvl, delta, demand, connection) ==
    LET source_effective == lvl[connection.source_id] + delta[connection.source_id]
        dest_effective == lvl[demand.customer_id] + delta[demand.customer_id]
    IN Min(Min(demand.remaining_quantity * 100,
               source_effective * max_fill_ratio),
           Min(connection.max_capacity * max_fill_ratio,
               n.capacity[demand.customer_id] * max_fill_ratio - dest_effective * 100))

\* _score_opportunity, times 10, as a fixed-point number.
\* cost = quantity * distance * 1.0 and co2 = quantity * distance * 0.5 (Connection.calculate_metrics)
score_opportunity(n, connection, quantity, source_effective, dest_effective) ==
    LET src_cap == n.capacity[connection.source_id]
        dst_cap == n.capacity[connection.destination_id]
        cost2 == 2 * quantity * connection.distance
        co22 == quantity * connection.distance
        efficiency_score == FDiv(2 * quantity, cost2 + co22 + 2)
        half == FScale \div 2
        current_src_util == FDiv(source_effective, src_cap)
        current_dst_util == FDiv(dest_effective, dst_cap)
        new_src_util == FDiv(source_effective - quantity, src_cap)
        new_dst_util == FDiv(dest_effective + quantity, dst_cap)
        utilization_score == Abs(half - current_src_util) - Abs(half - new_src_util)
                             + Abs(half - current_dst_util) - Abs(half - new_dst_util)
        lead_time_score == FDiv(1, 1 + connection.lead_time)
        quantity_score == Min(FScale, FDiv(quantity, connection.max_capacity))
    IN efficiency_score * 3 + utilization_score * 3 + lead_time_score * 2 + quantity_score * 2

\* mutant: the floor compared without its scale
too_small_unscaled(quantity100) == quantity100 < min_movement

\* the too-small test of _generate_opportunities_for_demand
too_small(quantity100) == quantity100 < min_movement * 100

\* _generate_opportunities_for_demand: one opportunity per viable source
generate_opportunities_for_demand(n, lvl, delta, demand) ==
    LET sources == dest_to_source(n, demand.customer_id)
        viable == SelectSeq(sources, LAMBDA s :
                      /\ HasConnection(n, s, demand.customer_id)
                      /\ ~too_small(safe_quantity100(n, lvl, delta, demand,
                                       connections_map(n, s, demand.customer_id))))
    IN [i \in 1..Len(viable) |->
          LET connection == connections_map(n, viable[i], demand.customer_id)
              quantity == safe_quantity100(n, lvl, delta, demand, connection) \div 100
          IN [score |-> score_opportunity(n, connection, quantity,
                                          lvl[viable[i]] + delta[viable[i]],
                                          lvl[demand.customer_id] + delta[demand.customer_id]),
              source_id |-> viable[i],
              destination_id |-> demand.customer_id,
              quantity |-> quantity,
              connection |-> connection.id]]

\* the generation loop of create_movements over the prioritised demands
RECURSIVE generate_all(_, _, _, _, _)
generate_all(n, lvl, delta, demands, order) ==
    IF order = <<>> THEN <<>>
    ELSE LET demand == demands[order[1]]
         IN (IF demand.remaining_quantity <= 0 THEN <<>>
             ELSE generate_opportunities_for_demand(n, lvl, delta, demand))
            \o generate_all(n, lvl, delta, demands, Tail(order))

\* mutant: the destination's ceiling is not checked
validate_movement_source_only(n, lvl, opportunity, delta) ==
    LET source_effective == lvl[opportunity.source_id] + delta[opportunity.source_id]
    IN ~((source_effective - opportunity.quantity) * 100
           < n.capacity[opportunity.source_id] * min_fill_ratio)

\* mutant: the source's floor is not checked
validate_movement_destination_only(n, lvl, opportunity, delta) ==
    LET dest_effective == lvl[opportunity.destination_id] + delta[opportunity.destination_id]
    IN ~((dest_effective + opportunity.quantity) * 100
           > n.capacity[opportunity.destination_id] * max_fill_ratio)

\* mutant: the source only has to stay above empty
validate_movement_source_above_zero(n, lvl, opportunity, delta) ==
    LET source_effective == lvl[opportunity.source_id] + delta[opportunity.source_id]
        dest_effective == lvl[opportunity.destination_id] + delta[opportunity.destination_id]
    IN /\ ~(source_effective - opportunity.quantity < 0)
       /\ ~((dest_effective + opportunity.quantity) * 100
              > n.capacity[opportunity.destination_id] * max_fill_ratio)

\* _validate_movement
validate_movement(n, lvl, opportunity, delta) ==
    LET source_effective == lvl[opportunity.source_id] + delta[opportunity.source_id]
        dest_effective == lvl[opportunity.destination_id] + delta[opportunity.destination_id]
    IN /\ ~((source_effective - opportunity.quantity) * 100
              < n.capacity[opportunity.source_id] * min_fill_ratio)
       /\ ~((dest_effective + opportunity.quantity) * 100
              > n.capacity[opportunity.destination_id] * max_fill_ratio)

\* valid_connections[source][destination] does not raise KeyError: the lookup
\* is built from the rows of the links, and has the pair unless the planner was
\* constructed with a lookup that lacks it (the pairs in n.lookup_gaps)
in_valid_connections(n, s, d) ==
    /\ HasConnection(n, s, d)
    /\ "lookup_gaps" \in DOMAIN n => <<s, d>> \notin n.lookup_gaps

\* _create_movement
create_movement(n, opportunity) ==
    [connection_id |-> valid_connections(n, opportunity.source_id, opportunity.destination_id),
     quantity |-> opportunity.quantity]

(***************************************************************************)
(* State machine                                                           *)
(***************************************************************************)
\* mutant: the accumulator of the previous call is used again
CarriedDelta == facilities_delta

\* facilities_delta = defaultdict(float): every facility reads as 0.0
ZeroDelta == [f \in net.facilities |-> 0]

Init ==
    /\ \E data \in InitialData :
          /\ net = data.net
          /\ level = data.level
          /\ active_demands = data.demands
    /\ current_day = 0
    /\ session_id = FALSE
    /\ pc = "start"
    /\ result = None
    /\ opportunities = <<>>
    /\ facilities_delta = [f \in net.facilities |-> 0]
    /\ movements = <<>>
    /\ movement_count = 0
    /\ processed_connections = {}
    /\ path_index = path_distances(net)
    /\ calls = <<>>
    /\ in_flight = {}
    /\ stopped_by = "none"
    /\ before = [day |-> current_day, level |-> level, active_demands |-> active_demands]
    /\ last_answer = "none"
    /\ headers = {"API-KEY", "Content-Type"}
    /\ prioritized_demands = <<>>

\* start_session: cleanup_existing_session() is called first; whatever it
\* returns, the attempts follow
StartSessionCleanup ==
    /\ pc = "start"
    /\ calls' = Append(calls, EndCall)
    /\ pc' = "starting"
    /\ UNCHANGED <<net, path_index, last_answer, headers, level, active_demands, current_day,
                   session_id, result, planner_vars, in_flight, stopped_by, before>>

\* the begin-session requests sent so far
attempts_made == Len(SelectSeq(calls, LAMBDA c : c.op = "start"))

\* mutant: the loop makes one attempt more
attempts_left_one_more == attempts_made <= max_retries

\* "for attempt in range(max_retries)": the loop has an attempt left
attempts_left == attempts_made < max_retries

\* one attempt of start_session: status 200 and a non-empty session id. The id
\* is stored and put in the headers, start_session returns True and run()
\* enters its try block
StartSessionOk ==
    /\ pc = "starting"
    /\ attempts_left
    /\ calls' = Append(calls, StartCall)
    /\ last_answer' = "ok"
    /\ session_id' = TRUE
    /\ headers' = headers \cup {"SESSION-ID"}
    /\ pc' = "loop"
    /\ UNCHANGED <<net, path_index, level, active_demands, current_day, result,
                   planner_vars, in_flight, stopped_by, before>>

\* one attempt of start_session that does not return: status 200 with an
\* empty body (session_id becomes the empty string), another status, or
\* requests.post raised
StartSessionRetry ==
    /\ pc = "starting"
    /\ attempts_left
    /\ calls' = Append(calls, StartCall)
    /\ \E answer \in {"empty_id", "refused", "raised"} :
          /\ last_answer' = answer
          /\ session_id' = IF answer = "empty_id" THEN FALSE ELSE session_id
    /\ UNCHANGED <<net, path_index, headers, level, active_demands, current_day, pc, result,
                   planner_vars, in_flight, stopped_by, before>>

\* the attempts are used up: start_session returns False and run() returns
StartSessionFail ==
    /\ pc = "starting"
    /\ ~attempts_left
    /\ pc' = "done"
    /\ UNCHANGED <<net, path_index, last_answer, headers, level, active_demands, current_day,
                   session_id, result, planner_vars, calls, in_flight, stopped_by, before>>

\* mutant: the early return is never taken
early_return_never(day, demands) == FALSE

\* create_movements: "if current_day == 0 or not active_demands: return []"
early_return(day, demands) == day = 0 \/ demands = <<>>

\* mutant: the day loop runs one day more
day_loop_condition_one_more(day) == day <= total_days

\* run(): "while self.current_day < self.total_days"
day_loop_condition(day) == day < total_days

\* create_movements up to the select loop: the early return, or prioritise, generate and sort
CreateMovements ==
    /\ pc = "loop"
    /\ day_loop_condition(current_day)
    /\ facilities_delta' = ZeroDelta
    /\ movements' = <<>>
    /\ movement_count' = 0
    /\ processed_connections' = {}
    /\ before' = [day |-> current_day, level |-> level, active_demands |-> active_demands]
    /\ IF early_return(current_day, active_demands)
       THEN /\ opportunities' = <<>>
            /\ prioritized_demands' = <<>>
            /\ pc' = "submit"
       ELSE /\ \E order \in prioritize_demands(net, active_demands, current_day) :
                  /\ prioritized_demands' = [i \in 1..Len(order) |-> active_demands[order[i]]]
                  /\ opportunities' = sort_reverse(
                         generate_all(net, level, ZeroDelta, active_demands, order))
            /\ pc' = "select"
    /\ UNCHANGED <<net, path_index, last_answer, headers, level, active_demands, current_day, session_id, result,
                   calls, in_flight, stopped_by>>

\* mutant: the per-day cap is not checked
loop_condition_no_cap == opportunities # <<>>

\* the condition of the select loop
loop_condition == opportunities # <<>> /\ movement_count < max_movements_per_day

\* mutant: the pair is not recorded
mark_processed_nothing(processed, connection_key) == processed

\* what a commit adds to processed_connections
mark_processed(processed, connection_key) == processed \cup {connection_key}

\* one iteration: the popped opportunity's pair was used already
SelectSkip ==
    /\ pc = "select"
    /\ loop_condition
    /\ <<opportunities[1].source_id, opportunities[1].destination_id>> \in processed_connections
    /\ opportunities' = Tail(opportunities)
    /\ UNCHANGED <<net, path_index, last_answer, headers, level, active_demands, current_day, session_id, pc, result,
                   facilities_delta, movements, movement_count, processed_connections,
                   prioritized_demands, calls, in_flight, stopped_by, before>>

\* one iteration: the popped opportunity fails _validate_movement
SelectDrop ==
    /\ pc = "select"
    /\ loop_condition
    /\ <<opportunities[1].source_id, opportunities[1].destination_id>> \notin processed_connections
    /\ ~validate_movement(net, level, opportunities[1], facilities_delta)
    /\ opportunities' = Tail(opportunities)
    /\ UNCHANGED <<net, path_index, last_answer, headers, level, active_demands, current_day, session_id, pc, result,
                   facilities_delta, movements, movement_count, processed_connections,
                   prioritized_demands, calls, in_flight, stopped_by, before>>

\* mutant: the commit is recorded at the destination only
apply_delta_destination_only(delta, opportunity) ==
    [delta EXCEPT ![opportunity.destination_id] = @ + opportunity.quantity]

\* "Update tracking": the commit in the delta accumulator
apply_delta(delta, opportunity) ==
    [delta EXCEPT ![opportunity.source_id] = @ - opportunity.quantity,
                  ![opportunity.destination_id] = @ + opportunity.quantity]

\* one iteration: the popped opportunity is committed and the pool re-validated
SelectCommit ==
    /\ pc = "select"
    /\ loop_condition
    /\ LET opportunity == opportunities[1]
           connection_key == <<opportunity.source_id, opportunity.destination_id>>
           delta == apply_delta(facilities_delta, opportunity)
       IN /\ connection_key \notin processed_connections
          /\ validate_movement(net, level, opportunity, facilities_delta)
          /\ in_valid_connections(net, opportunity.source_id, opportunity.destination_id)
          /\ movements' = Append(movements, create_movement(net, opportunity))
          /\ movement_count' = movement_count + 1
          /\ facilities_delta' = delta
          /\ processed_connections' = mark_processed(processed_connections, connection_key)
          /\ opportunities' = SelectSeq(Tail(opportunities),
                                  LAMBDA opp : validate_movement(net, level, opp, delta))
    /\ UNCHANGED <<net, path_index, last_answer, headers, level, active_demands, current_day, session_id, pc, result,
                   prioritized_demands, calls, in_flight, stopped_by, before>>

\* one iteration: the popped opportunity is valid, and _create_movement raises
\* KeyError because valid_connections lacks its pair; create_movements does not
\* catch it
SelectCommitRaises ==
    /\ pc = "select"
    /\ loop_condition
    /\ <<opportunities[1].source_id, opportunities[1].destination_id>> \notin processed_connections
    /\ validate_movement(net, level, opportunities[1], facilities_delta)
    /\ ~in_valid_connections(net, opportunities[1].source_id, opportunities[1].destination_id)
    /\ opportunities' = Tail(opportunities)
    /\ pc' = "raised"
    /\ UNCHANGED <<net, path_index, last_answer, headers, level, active_demands, current_day,
                   session_id, result, facilities_delta, movements, movement_count,
                   processed_connections, prioritized_demands, calls, in_flight, stopped_by,
                   before>>

\* the select loop ends and create_movements returns its movements; the
\* prioritised list, a local, is gone
SelectExit ==
    /\ pc = "select"
    /\ ~loop_condition
    /\ prioritized_demands' = <<>>
    /\ pc' = "submit"
    /\ UNCHANGED <<net, path_index, last_answer, headers, level, active_demands, current_day,
                   session_id, result, opportunities, facilities_delta, movements,
                   movement_count, processed_connections, calls, in_flight, stopped_by,
                   before>>

\* mutant: the round request is sent whether or not a session id is set
MakeMoveSend_without_session_check ==
    /\ pc = "submit"
    /\ calls' = Append(calls, Call("round", current_day, movements))
    /\ in_flight' = in_flight \cup {current_day}
    /\ pc' = "await"
    /\ UNCHANGED <<net, path_index, last_answer, headers, level, active_demands, current_day,
                   session_id, result, planner_vars, stopped_by, before>>

\* make_move: a session id is set and the round request for the day is sent
MakeMoveSend ==
    /\ pc = "submit"
    /\ session_id
    /\ calls' = Append(calls, Call("round", current_day, movements))
    /\ in_flight' = in_flight \cup {current_day}
    /\ pc' = "await"
    /\ UNCHANGED <<net, path_index, last_answer, headers, level, active_demands, current_day, session_id, result,
                   planner_vars, stopped_by, before>>

\* make_move: status 200, the response is returned
MakeMoveOk ==
    /\ pc = "await"
    /\ \E new_demands \in ResponseDemands(net) :
          result' = [none |-> FALSE, demands |-> new_demands]
    /\ truthy(result')
    /\ in_flight' = in_flight \ {current_day}
    /\ pc' = "process"
    /\ UNCHANGED <<net, path_index, last_answer, headers, level, active_demands, current_day, session_id,
                   planner_vars, calls, stopped_by, before>>

\* mutant: after a failed round the day is planned again
MakeMoveFail_plans_again ==
    /\ pc = "await"
    /\ result' = None
    /\ in_flight' = in_flight \ {current_day}
    /\ stopped_by' = "failed_round"
    /\ pc' = "loop"
    /\ UNCHANGED <<net, path_index, last_answer, headers, level, active_demands, current_day, session_id,
                   planner_vars, calls, before>>

\* make_move returns None (another status, or requests raised): run() breaks
MakeMoveFail ==
    /\ pc = "await"
    /\ result' = None
    /\ in_flight' = in_flight \ {current_day}
    /\ stopped_by' = "failed_round"
    /\ pc' = "teardown"
    /\ UNCHANGED <<net, path_index, last_answer, headers, level, active_demands, current_day, session_id,
                   planner_vars, calls, before>>

\* make_move: status 200 and response.json() is {}; the dict is returned, "not
\* result" holds of it and run() breaks as it does for None
MakeMoveEmptyObject ==
    /\ pc = "await"
    /\ result' = EmptyObject
    /\ ~truthy(result')
    /\ in_flight' = in_flight \ {current_day}
    /\ stopped_by' = "empty_response"
    /\ pc' = "teardown"
    /\ UNCHANGED <<net, path_index, last_answer, headers, level, active_demands, current_day, session_id,
                   planner_vars, calls, before>>

\* mutant: the day counter skips a day
next_day_skips(day) == day + 2

\* _process_round_result: self.current_day += 1
next_day(day) == day + 1

\* _process_round_result
ProcessRoundResult ==
    /\ pc = "process"
    /\ current_day' = next_day(current_day)
    /\ active_demands' = active_demands \o result.demands
    /\ pc' = "update"
    /\ UNCHANGED <<net, path_index, last_answer, headers, level, session_id, result, planner_vars,
                   calls, in_flight, stopped_by, before>>

\* _process_round_result raises while it builds the new demands (a record of
\* the response lacks a field): the day counter was incremented already
ProcessRoundResultRaises ==
    /\ pc = "process"
    /\ current_day' = next_day(current_day)
    /\ stopped_by' = "exception"
    /\ pc' = "teardown"
    /\ UNCHANGED <<net, path_index, last_answer, headers, level, active_demands, session_id, result,
                   planner_vars, calls, in_flight, before>>

\* next(conn for conn in connections_map.values() if conn.id == connection_id)
connection_by_id(n, connection_id) ==
    LET found == SelectSeq(n.connections, LAMBDA c :
                     /\ c.id = connection_id
                     /\ c = connections_map(n, c.source_id, c.destination_id))
    IN found[1]

\* mutant: only the destination of a movement is updated
RECURSIVE update_facility_levels_destination_only(_, _, _)
update_facility_levels_destination_only(n, lvl, ms) ==
    IF ms = <<>> THEN lvl
    ELSE LET connection == connection_by_id(n, ms[1].connection_id)
         IN update_facility_levels_destination_only(n,
                [lvl EXCEPT ![connection.destination_id] = @ + ms[1].quantity],
                Tail(ms))

\* the loop of _update_facility_levels
RECURSIVE update_facility_levels(_, _, _)
update_facility_levels(n, lvl, ms) ==
    IF ms = <<>> THEN lvl
    ELSE LET connection == connection_by_id(n, ms[1].connection_id)
             quantity == ms[1].quantity
             after_source == [lvl EXCEPT ![connection.source_id] = @ - quantity]
         IN update_facility_levels(n,
                [after_source EXCEPT ![connection.destination_id] = @ + quantity],
                Tail(ms))

UpdateFacilityLevels ==
    /\ pc = "update"
    /\ level' = update_facility_levels(net, level, movements)
    /\ pc' = "cleanup"
    /\ UNCHANGED <<net, path_index, last_answer, headers, active_demands, current_day, session_id, result,
                   planner_vars, calls, in_flight, stopped_by, before>>

\* _update_facility_levels is interrupted inside its loop: the first applied
\* movements are in the levels, and of the next one the source's decrement only
\* when source_only
UpdateFacilityLevelsInterrupted ==
    /\ pc = "update"
    /\ \E applied \in 0..(Len(movements) - 1), source_only \in BOOLEAN :
          /\ applied > 0 \/ source_only
          /\ LET done == update_facility_levels(net, level, SubSeq(movements, 1, applied))
                 connection == connection_by_id(net, movements[applied + 1].connection_id)
             IN level' = IF source_only
                         THEN [done EXCEPT ![connection.source_id] =
                                               @ - movements[applied + 1].quantity]
                         ELSE done
    /\ stopped_by' = "interrupt"
    /\ pc' = "teardown"
    /\ UNCHANGED <<net, path_index, last_answer, headers, active_demands, current_day, session_id, result,
                   planner_vars, calls, in_flight, before>>

\* mutant: the window test is off by one day
keep_demand_day_late(demand, day) ==
    demand.remaining_quantity > 0 /\ demand.end_delivery_day >= day - 1

\* the filter of _cleanup_completed_demands
keep_demand(demand, day) ==
    demand.remaining_quantity > 0 /\ demand.end_delivery_day >= day

CleanupCompletedDemands ==
    /\ pc = "cleanup"
    /\ active_demands' = SelectSeq(active_demands, LAMBDA d : keep_demand(d, current_day))
    /\ pc' = "loop"
    /\ UNCHANGED <<net, path_index, last_answer, headers, level, current_day, session_id, result, planner_vars,
                   calls, in_flight, stopped_by, before>>

\* the while condition fails
LoopEnd ==
    /\ pc = "loop"
    /\ ~day_loop_condition(current_day)
    /\ stopped_by' = "completed"
    /\ pc' = "teardown"
    /\ UNCHANGED <<net, path_index, last_answer, headers, level, active_demands, current_day, session_id, result,
                   planner_vars, calls, in_flight, before>>

\* the program points inside the try block of run()
in_try == pc \in {"loop", "select", "submit", "await", "process", "update", "cleanup"}

\* a KeyboardInterrupt, or an exception, is raised between two steps inside the
\* try block; its handler prints and falls through to the finally clause
Interrupt ==
    /\ in_try
    /\ \E how \in {"interrupt", "exception"} : stopped_by' = how
    /\ pc' = "teardown"
    /\ UNCHANGED <<net, path_index, last_answer, headers, level, active_demands, current_day, session_id, result,
                   planner_vars, calls, in_flight, before>>

\* mutant: the finally clause makes no end-session call
EndSession_no_call ==
    /\ pc = "teardown"
    /\ pc' = "done"
    /\ UNCHANGED <<net, path_index, last_answer, headers, level, active_demands, current_day, session_id, result,
                   planner_vars, calls, in_flight, stopped_by, before>>

\* finally: cleanup_existing_session() when a session id is set
EndSession ==
    /\ pc = "teardown"
    /\ IF session_id THEN calls' = Append(calls, EndCall) ELSE calls' = calls
    /\ pc' = "done"
    /\ UNCHANGED <<net, path_index, last_answer, headers, level, active_demands, current_day, session_id, result,
                   planner_vars, in_flight, stopped_by, before>>

Next ==
    \/ StartSessionCleanup
    \/ StartSessionOk
    \/ StartSessionRetry
    \/ StartSessionFail
    \/ CreateMovements
    \/ SelectSkip
    \/ SelectDrop
    \/ SelectCommit
    \/ SelectExit
    \/ MakeMoveSend
    \/ MakeMoveOk
    \/ MakeMoveFail
    \/ MakeMoveEmptyObject
    \/ ProcessRoundResult
    \/ ProcessRoundResultRaises
    \/ UpdateFacilityLevels
    \/ UpdateFacilityLevelsInterrupted
    \/ CleanupCompletedDemands
    \/ LoopEnd
    \/ Interrupt
    \/ EndSession

Spec == Init /\ [][Next]_vars

(***************************************************************************)
(* The planner alone: an AdvancedPlanner is constructed over a network and *)
(* create_movements is called once, for any day and any demand list        *)
(***************************************************************************)
Reverse(s) == [i \in 1..Len(s) |-> s[Len(s) + 1 - i]]

\* the directed links a graph network can have: every ordered pair of n1..n4,
\* and two links into n5
PathPairs ==
    << <<"e1", "n1", "n2">>, <<"e2", "n1", "n3">>, <<"e3", "n1", "n4">>,
       <<"e4", "n2", "n1">>, <<"e5", "n2", "n3">>, <<"e6", "n2", "n4">>,
       <<"e7", "n3", "n1">>, <<"e8", "n3", "n2">>, <<"e9", "n3", "n4">>,
       <<"e10", "n4", "n1">>, <<"e11", "n4", "n2">>, <<"e12", "n4", "n3">>,
       <<"e13", "n4", "n5">>, <<"e14", "n2", "n5">> >>

\* the network with the links of PathPairs whose index is in chosen; only n1
\* has the capacity of a storage facility
GraphNet(chosen) ==
    LET rows == SelectSeq(PathPairs, LAMBDA p :
                    \E k \in chosen : PathPairs[k] = p)
    IN [facilities |-> {"n1", "n2", "n3", "n4", "n5"},
        capacity |-> [f \in {"n1", "n2", "n3", "n4", "n5"} |->
                        IF f = "n1" THEN LargeCapacity ELSE LargeCapacity - 1],
        connections |-> [i \in 1..Len(rows) |->
                           Connection(rows[i][1], rows[i][2], rows[i][3], 1, 80, 1)]]

\* MainNet read from a file that lists the pair (R, A) twice: the later row
\* replaces the earlier one in connections_map and in valid_connections
RepeatedPairNet ==
    [MainNet EXCEPT !.connections = Append(@, Connection("c6", "R", "A", 0, 4 * K, 1))]

\* MainNet with a depot S and a customer C beside it: S -> C is the only link
\* of the two, so no storage facility reaches C
SpurNet ==
    [facilities |-> MainNet.facilities \cup {"S", "C"},
     capacity |-> [f \in MainNet.facilities \cup {"S", "C"} |->
                     IF f \in {"R", "T", "S"} THEN 8 * K ELSE 4 * K],
     connections |-> Append(MainNet.connections, Connection("c7", "S", "C", 0, 4 * K, 1))]

dC == Demand("dC", "C", 2 * K, 0, 1, 2)
dHalf == Demand("dHalf", "A", K, 0, 1, 2)
dSoon == Demand("dSoon", "B", 2 * K, 0, 2, 3)

\* MainNet handed to the planner with a valid_connections lookup that lacks
\* the pair (T, A), which connections_map has
LookupGapNet ==
    [facilities |-> MainNet.facilities,
     capacity |-> MainNet.capacity,
     connections |-> MainNet.connections,
     lookup_gaps |-> { <<"T", "A">> }]

\* what the planner can be constructed over and called with
PlannerInputs ==
    { [net |-> d.net, level |-> d.level, demands |-> d.demands, day |-> day] :
        d \in InitialData, day \in 0..(total_days - 1) }
    \cup
    { [net |-> MainNet,
       level |-> [f \in MainNet.facilities |->
                    IF f = "R" THEN 8 * K ELSE IF f = "T" THEN 2 * K ELSE 0],
       demands |-> ds, day |-> day] :
        ds \in { <<dLate>>, <<dLate, dA>>, <<dA, dA2>>, <<dZero, dT, dA>>, <<dSoon>> }, day \in 0..(total_days - 1) }
    \cup
    { [net |-> RepeatedPairNet,
       level |-> [f \in MainNet.facilities |->
                    IF f = "R" THEN 8 * K ELSE IF f = "T" THEN 4 * K ELSE 0],
       demands |-> ds, day |-> 1] :
        ds \in { <<dA>>, <<dB, dA>> } }
    \cup
    { [net |-> LookupGapNet,
       level |-> [f \in MainNet.facilities |->
                    IF f = "R" THEN 8 * K ELSE IF f = "T" THEN 4 * K ELSE 0],
       demands |-> ds, day |-> 1] :
        ds \in { <<dA>>, <<dB, dA>> } }
    \cup
    { [net |-> SpurNet,
       level |-> [f \in SpurNet.facilities |->
                    IF f \in {"R", "S"} THEN 8 * K ELSE IF f = "T" THEN 4 * K ELSE 0],
       demands |-> ds, day |-> 1] :
        ds \in { <<dC, dA>>, <<dHalf>> } }
    \cup
    { [net |-> GraphNet(chosen),
       level |-> [f \in {"n1", "n2", "n3", "n4", "n5"} |-> 0],
       demands |-> <<>>, day |-> 1] :
        chosen \in SUBSET (1..Len(PathPairs)) }

PlannerInit ==
    /\ \E data \in PlannerInputs :
          /\ net = data.net
          /\ level = data.level
          /\ active_demands = data.demands
          /\ current_day = data.day
    /\ session_id = FALSE
    /\ pc = "construct"
    /\ result = None
    /\ opportunities = <<>>
    /\ facilities_delta = [f \in net.facilities |-> 0]
    /\ movements = <<>>
    /\ movement_count = 0
    /\ processed_connections = {}
    /\ path_index = [f \in {} |-> 0]
    /\ calls = <<>>
    /\ in_flight = {}
    /\ stopped_by = "none"
    /\ before = [day |-> current_day, level |-> level, active_demands |-> active_demands]
    /\ last_answer = "none"
    /\ headers = {"API-KEY", "Content-Type"}
    /\ prioritized_demands = <<>>

\* AdvancedPlanner.__init__: _cache_network_structure builds the path index
CacheNetworkStructure ==
    /\ pc = "construct"
    /\ path_index' = path_distances(net)
    /\ pc' = "loop"
    /\ UNCHANGED <<net, level, active_demands, current_day, session_id, result,
                   planner_vars, calls, in_flight, stopped_by, before, last_answer, headers>>

PlannerNext ==
    \/ CacheNetworkStructure
    \/ CreateMovements
    \/ SelectSkip
    \/ SelectDrop
    \/ SelectCommit
    \/ SelectCommitRaises
    \/ SelectExit

PlannerSpec == PlannerInit /\ [][PlannerNext]_vars

(***************************************************************************)
(* The session manager without run()'s guard: either run() is started, or  *)
(* make_move is called on a SessionManager that was only constructed       *)
(***************************************************************************)
SessionInit ==
    /\ \E data \in InitialData :
          /\ net = data.net
          /\ level = data.level
          /\ active_demands = data.demands
    /\ current_day = 0
    /\ session_id = FALSE
    /\ pc \in {"start", "submit"}
    /\ result = None
    /\ opportunities = <<>>
    /\ facilities_delta = [f \in net.facilities |-> 0]
    /\ movements = <<>>
    /\ movement_count = 0
    /\ processed_connections = {}
    /\ path_index = path_distances(net)
    /\ calls = <<>>
    /\ in_flight = {}
    /\ stopped_by = "none"
    /\ before = [day |-> current_day, level |-> level, active_demands |-> active_demands]
    /\ last_answer = "none"
    /\ headers = {"API-KEY", "Content-Type"}
    /\ prioritized_demands = <<>>

\* make_move: "if not self.session_id: return None", no request is sent
MakeMoveNoSession ==
    /\ pc = "submit"
    /\ ~session_id
    /\ result' = None
    /\ pc' = "done"
    /\ UNCHANGED <<net, path_index, last_answer, headers, level, active_demands, current_day,
                   session_id, planner_vars, calls, in_flight, stopped_by, before>>

SessionNext ==
    \/ Next
    \/ MakeMoveNoSession

SessionSpec == SessionInit /\ [][SessionNext]_vars

(***************************************************************************)
(* Sanity of the model                                                     *)
(***************************************************************************)
TypeOK ==
    /\ pc \in {"construct", "start", "starting", "loop", "select", "raised", "submit", "await", "process",
                "update", "cleanup", "teardown", "done"}
    /\ stopped_by \in {"none", "completed", "failed_round", "empty_response", "interrupt",
                      "exception"}
    /\ in_flight \subseteq 0..total_days
    /\ current_day \in 0..total_days
    /\ movement_count = Len(movements)
    /\ \A f \in net.facilities : level[f] \in Int

\* no committed quantity was rounded: every safe quantity generated is a whole number
ArithmeticExact ==
    pc = "loop" /\ current_day < total_days =>
        \A i \in 1..Len(active_demands) :
            \A j \in 1..Len(net.connections) :
                LET demand == active_demands[i]
                    connection == net.connections[j]
                IN connection.destination_id = demand.customer_id =>
                     LET q == safe_quantity100(net, level, ZeroDelta, demand, connection)
                     IN too_small(q) \/ q % 100 = 0

(***************************************************************************)
(* Properties                                                              *)
(***************************************************************************)
\* the (source, destination) pair a movement's link joins
movement_pair(m) ==
    LET connection == connection_by_id(net, m.connection_id)
    IN <<connection.source_id, connection.destination_id>>

\* the total quantity of the movements in ms that leave facility f
RECURSIVE drawn_from(_, _)
drawn_from(f, ms) ==
    IF ms = <<>> THEN 0
    ELSE (IF movement_pair(ms[1])[1] = f THEN ms[1].quantity ELSE 0)
         + drawn_from(f, Tail(ms))

\* a planning pass has returned its movement list to run()
pass_returned == pc = "submit"

\* the step is a commit of the select loop
is_commit == pc = "select" /\ movement_count' = movement_count + 1

\* C1: in the select loop the popped opportunity (the head of the pool) has the
\* highest score of the pool: no opportunity is examined while a strictly
\* higher-scoring one is still in the pool.
C1_PopsHighestScore ==
    (pc = "select" /\ loop_condition) =>
        \A i \in 1..Len(opportunities) : opportunities[1].score >= opportunities[i].score

\* C2: the movements one pass returns draw from every facility at most its
\* current_level times MAX_FILL_RATIO, also when the facility receives a
\* movement in the same pass.
C2_NoOverDraw ==
    pass_returned =>
        \A f \in net.facilities :
            drawn_from(f, movements) * 100 <= level[f] * max_fill_ratio

\* C3: at every commit the projected level of the destination (current_level plus
\* the accumulated delta, this movement included) is at most capacity times
\* MAX_FILL_RATIO.
C3_DestinationWithinFill ==
    [][is_commit =>
          LET d == opportunities[1].destination_id
          IN (level[d] + facilities_delta'[d]) * 100 <= net.capacity[d] * max_fill_ratio]_vars

\* C3 witness: a pass committed movements from two different sources into one destination
C3_Witness ==
    /\ pass_returned
    /\ \E i, j \in 1..Len(movements) :
          /\ movement_pair(movements[i])[2] = movement_pair(movements[j])[2]
          /\ movement_pair(movements[i])[1] # movement_pair(movements[j])[1]

\* C4: every facility keeps 0 <= current_level <= capacity (the levels of the
\* loaded data satisfy it), after every completed day.
C4_LevelsWithinCapacity ==
    \A f \in net.facilities : 0 <= level[f] /\ level[f] <= net.capacity[f]

\* C4 witness: a second day was completed and its movements were applied
C4_Witness ==
    /\ pc = "loop"
    /\ current_day >= 2
    /\ movements # <<>>

\* C5: a commit decreases the remaining_quantity of a demand at the movement's destination.
C5_CommitDecreasesRemaining ==
    [][is_commit =>
          \E i \in 1..Len(active_demands) :
              /\ active_demands[i].customer_id = opportunities[1].destination_id
              /\ active_demands'[i].remaining_quantity
                   < active_demands[i].remaining_quantity]_vars

\* the state of the two-facility scenario on day 1
in_scenario ==
    /\ net = ScenarioNet
    /\ level = [f \in ScenarioNet.facilities |-> IF f = "A" THEN 100 ELSE 0]
    /\ active_demands = <<ScenarioDemand>>
    /\ current_day = 1

\* C6 as stated: in the scenario the pass returns exactly one movement, on the
\* link, of at most min(60, 100*0.88, 80*0.88, 150*0.88), and the demand's
\* remaining_quantity is 0 once it is applied.
C6_ScenarioOneMovement ==
    /\ (in_scenario /\ pass_returned) =>
          /\ Len(movements) = 1
          /\ movements[1].connection_id = "l1"
          /\ movements[1].quantity * 100
               <= Min(Min(60 * 100, 100 * max_fill_ratio),
                      Min(80 * max_fill_ratio, 150 * max_fill_ratio))
    /\ (net = ScenarioNet /\ pc = "cleanup" /\ current_day = 2) =>
          \A i \in 1..Len(active_demands) : active_demands[i].remaining_quantity = 0

\* C6 amended: in the scenario the pass returns no movement (the safe quantity 60
\* is below min_movement) and the demand's remaining_quantity stays 60.
C6_ScenarioNoMovement ==
    (in_scenario /\ pass_returned) =>
        /\ movements = <<>>
        /\ active_demands[1].remaining_quantity = 60

\* C6 witness: the scenario's pass has returned; the link's safe quantity was 60
C6_Witness ==
    /\ in_scenario
    /\ pass_returned
    /\ safe_quantity100(net, level, ZeroDelta, active_demands[1], net.connections[1]) = 60 * 100

\* C7: no two movements of one pass use the same (source, destination) pair.
C7_OneMovementPerPair ==
    \A i, j \in 1..Len(movements) :
        i # j => movement_pair(movements[i]) # movement_pair(movements[j])

\* C7 witness: the select loop pops an opportunity whose pair was committed already
C7_Witness ==
    /\ pc = "select"
    /\ loop_condition
    /\ movements # <<>>
    /\ <<opportunities[1].source_id, opportunities[1].destination_id>>
          \in processed_connections

\* C8: a pass returns at most max_movements_per_day movements, and the select
\* loop has stopped exactly when the cap is reached or the pool is empty.
C8_AtMostCap ==
    /\ Len(movements) <= max_movements_per_day
    /\ pass_returned =>
          (movement_count = max_movements_per_day \/ opportunities = <<>>)
    /\ (pc = "select" /\ ~ENABLED SelectExit) =>
          (movement_count < max_movements_per_day /\ opportunities # <<>>)

\* C8 witness: the loop stopped at the cap with opportunities left in the pool
C8_Witness ==
    /\ pass_returned
    /\ movement_count = max_movements_per_day
    /\ opportunities # <<>>

\* the opportunities the pass generated: levels and demands do not change in a pass
generated ==
    UNION { Range(generate_opportunities_for_demand(net, level, ZeroDelta, active_demands[i])) :
            i \in {k \in 1..Len(active_demands) : active_demands[k].remaining_quantity > 0} }

committed(opp) ==
    \E i \in 1..Len(movements) :
        /\ movement_pair(movements[i]) = <<opp.source_id, opp.destination_id>>
        /\ movements[i].quantity = opp.quantity

\* C9: of two opportunities of one source that each pass validation alone but
\* not together, the committed one is the higher-scoring one and the other is
\* not committed (stated for the passes that commit a single movement).
C9_HigherScoreWins ==
    (pass_returned /\ current_day > 0 /\ active_demands # <<>>) =>
        \A hi, lo \in generated :
            (/\ hi.source_id = lo.source_id
             /\ hi.destination_id # lo.destination_id
             /\ hi.score > lo.score
             /\ validate_movement(net, level, hi, ZeroDelta)
             /\ validate_movement(net, level, lo, ZeroDelta)
             /\ (level[hi.source_id] - hi.quantity - lo.quantity) * 100
                  < net.capacity[hi.source_id] * min_fill_ratio
             /\ Len(movements) = 1)
            => ~committed(lo)

\* C10: after _cleanup_completed_demands the active set holds no demand with
\* remaining_quantity = 0 and none whose end_delivery_day is before current_day.
C10_NoDeadDemands ==
    (pc = "loop" /\ current_day > 0) =>
        \A i \in 1..Len(active_demands) :
            /\ active_demands[i].remaining_quantity # 0
            /\ ~(active_demands[i].end_delivery_day < current_day)

\* C10 witness: the round's response posted a demand of quantity 0 and an expired one
C10_Witness ==
    /\ pc = "loop"
    /\ current_day > 0
    /\ ~result.none
    /\ \E i, j \in 1..Len(result.demands) :
          /\ result.demands[i].remaining_quantity = 0
          /\ result.demands[j].end_delivery_day < current_day

\* C11: every demand of the active set has 0 <= remaining_quantity <= quantity
\* in every state of a run, and from one state to the next the
\* remaining_quantity of a demand (demands are told apart by id) never increases.
C11_RemainingBounded ==
    /\ [](\A i \in 1..Len(active_demands) :
             /\ 0 <= active_demands[i].remaining_quantity
             /\ active_demands[i].remaining_quantity <= active_demands[i].quantity)
    /\ [][\A i \in 1..Len(active_demands), j \in 1..Len(active_demands') :
             active_demands[i].id = active_demands'[j].id =>
                 active_demands'[j].remaining_quantity
                     <= active_demands[i].remaining_quantity]_vars

\* C11 witness: a demand is still active on the second day after a movement
\* into its customer was committed and applied
C11_Witness ==
    /\ pc = "loop"
    /\ current_day >= 2
    /\ \E i \in 1..Len(active_demands), k \in 1..Len(movements) :
          /\ active_demands[i].post_day = 0
          /\ movement_pair(movements[k])[2] = active_demands[i].customer_id

\* the demands of the active set at customer c
demands_at(c) == {i \in 1..Len(active_demands) : active_demands[i].customer_id = c}

rounds == SelectSeq(calls, LAMBDA c : c.op = "round")

\* the day loop of run() has stopped
loop_stopped == pc \in {"teardown", "done"}

\* C13: when make_move returns None for day d the day loop halts: no later
\* round is submitted and day d is not planned again, and the day counter,
\* every facility's level and the active demands are what they were before
\* day d was planned.
C13_FailedRoundHalts ==
    /\ [](stopped_by = "failed_round" =>
             /\ loop_stopped
             /\ current_day = rounds[Len(rounds)].day
             /\ level = before.level
             /\ active_demands = before.active_demands)
    /\ [][stopped_by = "failed_round" => rounds' = rounds]_vars

\* C13 witness: the round of a day with planned movements failed, after at
\* least one day was completed, and the run has ended
C13_Witness ==
    /\ stopped_by = "failed_round"
    /\ pc = "done"
    /\ current_day >= 1
    /\ movements # <<>>

\* the end-session requests sent after the last begin-session request
ends_after_start ==
    LET starts == {i \in 1..Len(calls) : calls[i].op = "start"}
        last_start == CHOOSE i \in starts : \A j \in starts : j <= i
    IN {i \in (last_start + 1)..Len(calls) : calls[i].op = "end"}

\* C14: once the session was started, however the day loop ends (all days
\* completed, a failed round, an interruption, an exception), the run ends with
\* exactly one end-session request, sent after the last round request; none is
\* sent before the loop has stopped, and the teardown step is then taken.
C14_OneTeardown ==
    session_id =>
        /\ stopped_by # "none" <=> loop_stopped
        /\ pc # "done" => ends_after_start = {}
        /\ pc = "teardown" => ENABLED EndSession
        /\ pc = "done" =>
              /\ Cardinality(ends_after_start) = 1
              /\ calls[Len(calls)].op = "end"

\* C14 witness: the run was interrupted while a round request was unanswered,
\* and has ended
C14_Witness ==
    /\ session_id
    /\ pc = "done"
    /\ stopped_by = "interrupt"
    /\ in_flight # {}
    /\ Len(rounds) >= 2

\* the response to the last round request has been applied in full: the day
\* counter incremented, the new demands appended, the round's movements applied
\* to the levels, the demands cleaned up
last_round_applied ==
    LET last == rounds[Len(rounds)]
    IN /\ ~result.none
       /\ current_day = last.day + 1
       /\ level = update_facility_levels(net, before.level, last.movements)
       /\ active_demands = SelectSeq(before.active_demands \o result.demands,
                                     LAMBDA d : keep_demand(d, current_day))

\* the step begins a planning pass
pass_begins == pc # "select" /\ pc' \in {"select", "submit"}

\* C15: the rounds submitted in a run carry the days 0, 1, 2, ... in this
\* order, without gap or repetition; at most one round request is unanswered at
\* any time; a day is planned only when every earlier round was answered and
\* the response to the last one applied in full.
C15_DaysInOrder ==
    /\ [](/\ \A i \in 1..Len(rounds) : rounds[i].day = i - 1
          /\ Cardinality(in_flight) <= 1
          /\ pc \in {"select", "submit"} => (in_flight = {} /\ current_day = Len(rounds)))
    /\ [][pass_begins =>
             /\ pc = "loop"
             /\ in_flight = {}
             /\ rounds # <<>> => last_round_applied]_vars

\* C15 witness: the round of the last day, with movements, is in flight
C15_Witness ==
    /\ pc = "await"
    /\ Len(rounds) = total_days
    /\ in_flight = {total_days - 1}
    /\ rounds[Len(rounds)].movements # <<>>
    /\ rounds[Len(rounds) - 1].movements # <<>>

\* C16: whenever the day loop has stopped, the last submitted day is applied
\* in full (day counter incremented, new demands appended, every movement of
\* the round applied to both of its facilities) or not at all.
C16_AllOrNothing ==
    (loop_stopped /\ rounds # <<>>) =>
        LET last == rounds[Len(rounds)]
        IN IF before.day = last.day
           THEN \/ /\ current_day = last.day
                   /\ level = before.level
                   /\ active_demands = before.active_demands
                \/ /\ ~result.none
                   /\ current_day = last.day + 1
                   /\ level = update_facility_levels(net, before.level, last.movements)
                   /\ active_demands \in
                        { before.active_demands \o result.demands,
                          SelectSeq(before.active_demands \o result.demands,
                                    LAMBDA d : keep_demand(d, current_day)) }
           ELSE \* the next day's pass had begun: the last day was applied before
                /\ before.day = last.day + 1
                /\ current_day = last.day + 1
                /\ level = before.level
                /\ active_demands = before.active_demands

\* C17: a call of create_movements leaves every facility's current_level as it
\* was: the tentative allocations are in the accumulator only, which is zero
\* for every facility when a call begins; the levels change only in
\* _update_facility_levels, after the round was answered.
C17_PlanningKeepsLevels ==
    /\ [](pc \in {"select", "submit"} => level = before.level)
    /\ [][pass_begins => facilities_delta' = [f \in net.facilities |-> 0]]_vars
    /\ [][level' # level => (pc = "update" /\ ~result.none)]_vars

\* C17 witness: a pass has committed movements (the accumulator is not zero)
\* on a day after a day whose movements were applied to the levels
C17_Witness ==
    /\ pc = "submit"
    /\ movements # <<>>
    /\ \E f \in net.facilities : facilities_delta[f] # 0
    /\ Len(rounds) >= 2
    /\ rounds[Len(rounds)].movements # <<>>

\* C18: on day 0, and on a day with no active demand, create_movements returns
\* the empty list, and run() still submits the round of that day, with the
\* empty list.
C18_IdleDaySubmitted ==
    (current_day = 0 \/ active_demands = <<>>) =>
        /\ pc = "submit" => (movements = <<>> /\ ENABLED MakeMoveSend)
        /\ pc = "await" =>
              rounds[Len(rounds)] = Call("round", current_day, <<>>)

\* C18 witness: the round of day 0 was sent while demands were active
C18_Witness ==
    /\ pc = "await"
    /\ current_day = 0
    /\ Len(active_demands) >= 2
    /\ rounds = <<Call("round", 0, <<>>)>>

\* the directed links of a network, as (source, destination) pairs
Edges(n) == {<<n.connections[i].source_id, n.connections[i].destination_id>> :
                i \in 1..Len(n.connections)}

\* the facilities some directed path of at most k links leads to from s
RECURSIVE Within(_, _, _)
Within(n, s, k) ==
    IF k = 0 THEN {s}
    ELSE LET near == Within(n, s, k - 1)
         IN near \cup {t \in n.facilities : \E u \in near : <<u, t>> \in Edges(n)}

Reachable(n, s) == Within(n, s, Cardinality(n.facilities))

\* the least number of links of a directed path from s to t, t reachable from s
Hops(n, s, t) ==
    CHOOSE k \in 0..Cardinality(n.facilities) :
        /\ t \in Within(n, s, k)
        /\ \A j \in 0..(k - 1) : t \notin Within(n, s, j)

\* the efficiency a demand at customer c must get: from the nearest storage
\* facility that reaches c, and 0 when none does
expected_efficiency(n, c) ==
    LET from == {s \in storage_facilities(n) : c \in Reachable(n, s)}
    IN IF from = {} THEN 0
       ELSE LET nearest == CHOOSE s \in from :
                               \A x \in from : Hops(n, s, c) <= Hops(n, x, c)
            IN FDiv(1, Hops(n, nearest, c) + 1)

\* C19: the path index holds the pair (s, t) exactly when t is reachable from s
\* over directed links, with the least number of links of a path from s to t
\* (0 from s to s); a pair that is absent adds nothing to a demand's efficiency
\* (0 when no storage facility reaches the customer), and querying it is no error.
C19_PathIndexIsHopCount ==
    pc # "construct" =>
        /\ \A s \in net.facilities :
              /\ DOMAIN path_index[s] = Reachable(net, s)
              /\ \A t \in Reachable(net, s) : path_index[s][t] = Hops(net, s, t)
        /\ \A c \in net.facilities :
              demand_efficiency(net, Demand("probe", c, 100, 0, 0, 1))
                  = expected_efficiency(net, c)

\* C19 witness: an index with a pair three links apart, a cycle, and a storage
\* facility that does not reach some customer
C19_Witness ==
    /\ pc = "loop"
    /\ \E s, t \in net.facilities : t \in DOMAIN path_index[s] /\ path_index[s][t] = 3
    /\ \E s, t \in net.facilities :
          s # t /\ t \in DOMAIN path_index[s] /\ s \in DOMAIN path_index[t]
    /\ \E s \in storage_facilities(net), c \in net.facilities :
          /\ c \notin DOMAIN path_index[s]
          /\ demand_efficiency(net, Demand("probe", c, 100, 0, 0, 1)) = 0

\* the same network with its links listed in another order
Reorderings(n) ==
    { [n EXCEPT !.connections = Reverse(@)],
      [n EXCEPT !.connections = IF @ = <<>> THEN @ ELSE Append(Tail(@), Head(@))] }

\* C20: building the path index again from the same facilities and links, in
\* whatever order the links are listed, gives the mapping the planner holds,
\* and no planning call changes that mapping after the planner's construction.
C20_PathIndexStable ==
    /\ [](pc # "construct" =>
             \A other \in Reorderings(net) \cup {net} :
                 path_distances(other) = path_index)
    /\ [][pc # "construct" => path_index' = path_index]_vars

\* C20 witness: a planning pass has committed movements, and the index built
\* from the links in reverse order is the one the planner holds
C20_Witness ==
    /\ pc = "submit"
    /\ Len(movements) >= 2
    /\ Reverse(net.connections) # net.connections
    /\ path_distances([net EXCEPT !.connections = Reverse(@)]) = path_index
    /\ \E s, t \in net.facilities : t \notin DOMAIN path_index[s]

(***************************************************************************)
(* The session: rounds inside it, and how it is started                    *)
(***************************************************************************)
\* the requests of the log at the positions lo..hi
calls_between(lo, hi) == {calls[k] : k \in lo..hi}

\* C21: every round request of a run is sent while a session is active: after
\* a begin-session request that was answered with a session id, with no
\* end-session request between the two, with the session id set and in the
\* headers; and make_move called without a session id returns None and sends
\* no request.
C21_RoundsInsideSession ==
    /\ [](\A i \in 1..Len(calls) :
            calls[i].op = "round" =>
                \E j \in 1..(i - 1) :
                    /\ calls[j].op = "start"
                    /\ \A c \in calls_between(j + 1, i - 1) : c.op = "round")
    /\ [](rounds # <<>> => last_answer = "ok")
    /\ [][Len(rounds') > Len(rounds) => session_id /\ "SESSION-ID" \in headers]_vars
    /\ [][pc = "submit" /\ ~session_id =>
            calls' = calls /\ in_flight' = in_flight /\ result' = None]_vars

\* a run that submitted two rounds and ended its session
C21_Witness ==
    /\ pc = "done"
    /\ Len(rounds) >= 2
    /\ calls[Len(calls)].op = "end"
    /\ calls[Len(calls) - 1].op = "round"

\* C22: start_session sends at most max_retries begin-session requests and then
\* returns; it returns True exactly when the request it just sent was answered
\* with status 200 and a non-empty session id, and then the id is stored and in
\* the headers; it returns False after max_retries requests none of which was
\* answered so, and then run() plans and submits no day.
C22_StartSession ==
    /\ [](Len(SelectSeq(calls, LAMBDA c : c.op = "start")) <= max_retries)
    /\ [](pc = "starting" => ENABLED (StartSessionOk \/ StartSessionRetry \/ StartSessionFail))
    /\ [][pc = "starting" =>
            /\ (pc' = "loop") <=> (last_answer' = "ok" /\ Len(calls') = Len(calls) + 1)
            /\ pc' = "loop" => session_id' /\ "SESSION-ID" \in headers'
            /\ pc' = "done" =>
                  /\ ~session_id'
                  /\ Len(SelectSeq(calls, LAMBDA c : c.op = "start")) = max_retries
                  /\ calls' = calls]_vars
    /\ [](last_answer # "ok" =>
            /\ pc \in {"start", "starting", "done"}
            /\ rounds = <<>>
            /\ current_day = 0
            /\ prioritized_demands = <<>> /\ opportunities = <<>> /\ movements = <<>>)

\* start_session returned False although one request was answered with status
\* 200: the body was empty
C22_Witness ==
    /\ pc = "done"
    /\ last_answer = "empty_id"
    /\ ~session_id
    /\ Len(calls) = max_retries + 1

(***************************************************************************)
(* The application of a round response                                     *)
(***************************************************************************)
\* the total quantity of the movements in ms that arrive at facility f
RECURSIVE received_by(_, _)
received_by(f, ms) ==
    IF ms = <<>> THEN 0
    ELSE (IF movement_pair(ms[1])[2] = f THEN ms[1].quantity ELSE 0)
         + received_by(f, Tail(ms))

\* the sum of lvl over the facilities in F
RECURSIVE level_sum(_, _)
level_sum(lvl, F) ==
    IF F = {} THEN 0
    ELSE LET f == CHOOSE x \in F : TRUE
         IN lvl[f] + level_sum(lvl, F \ {f})

\* C23: a response is applied in this order: the day counter is incremented
\* and the posted demands appended (levels untouched), then every committed
\* movement is subtracted from its link's source and added to its link's
\* destination (day and demands untouched), then the demands are cleaned up
\* against the new day; so the sum of the levels over all facilities is after
\* every applied day what it was when the day was planned.
C23_ResponseApplication ==
    /\ [][pc = "process" /\ pc' = "update" =>
            /\ current_day' = current_day + 1
            /\ active_demands' = active_demands \o result.demands
            /\ level' = level]_vars
    /\ [][pc = "update" /\ pc' = "cleanup" =>
            /\ \A f \in net.facilities :
                  level'[f] = level[f] - drawn_from(f, movements) + received_by(f, movements)
            /\ current_day' = current_day
            /\ active_demands' = active_demands]_vars
    /\ [][pc = "cleanup" /\ pc' = "loop" =>
            /\ level' = level
            /\ current_day' = current_day
            /\ active_demands' = SelectSeq(active_demands, LAMBDA d :
                   d.remaining_quantity > 0 /\ d.end_delivery_day >= current_day)]_vars
    /\ [](~loop_stopped =>
            level_sum(level, net.facilities) = level_sum(before.level, net.facilities))

\* a day on which two movements were applied: levels moved, their sum did not
C23_Witness ==
    /\ pc = "loop"
    /\ before.day = current_day - 1
    /\ Len(movements) >= 2
    /\ \E f \in net.facilities : level[f] < before.level[f]
    /\ \E f \in net.facilities : level[f] > before.level[f]
    /\ level_sum(level, net.facilities) = level_sum(before.level, net.facilities)

(***************************************************************************)
(* Generation against validation                                           *)
(***************************************************************************)
\* opp leaves its source at least min_fill_ratio of the source's capacity
keeps_source_floor(opp, delta) ==
    (level[opp.source_id] + delta[opp.source_id] - opp.quantity) * 100
        >= net.capacity[opp.source_id] * min_fill_ratio

\* C24: every opportunity that generation produces is accepted by
\* _validate_movement against the accumulator it was generated against (the
\* all-zero one), so the first opportunity popped is committed.
C24_GeneratedIsValid ==
    [][pass_begins =>
         \A k \in 1..Len(opportunities') :
             validate_movement(net, level, opportunities'[k], facilities_delta')]_vars

\* opp leaves its destination at most max_fill_ratio of the destination's capacity
keeps_destination_ceiling(opp, delta) ==
    (level[opp.destination_id] + delta[opp.destination_id] + opp.quantity) * 100
        <= net.capacity[opp.destination_id] * max_fill_ratio

\* C25: a commit of the select loop decreases the accumulator at the source
\* and increases it at the destination by the committed quantity and leaves it
\* alone elsewhere, marks the pair used, and leaves in the pool only
\* opportunities that pass validation against the updated accumulator; a
\* popped opportunity that fails validation is dropped and the accumulator, the
\* used pairs and the movement list stay as they were.
C25_CommitAndDrop ==
    /\ [][is_commit =>
            LET opp == opportunities[1] IN
            /\ facilities_delta'[opp.source_id]
                   = facilities_delta[opp.source_id] - opp.quantity
            /\ facilities_delta'[opp.destination_id]
                   = facilities_delta[opp.destination_id] + opp.quantity
            /\ \A f \in net.facilities \ {opp.source_id, opp.destination_id} :
                   facilities_delta'[f] = facilities_delta[f]
            /\ processed_connections'
                   = processed_connections \cup {<<opp.source_id, opp.destination_id>>}
            /\ movements'[Len(movements')].quantity = opp.quantity
            /\ \A k \in 1..Len(opportunities') :
                   /\ keeps_source_floor(opportunities'[k], facilities_delta')
                   /\ keeps_destination_ceiling(opportunities'[k], facilities_delta')]_vars
    /\ [][(/\ pc = "select" /\ pc' = "select"
           /\ opportunities # <<>> /\ movement_count < max_movements_per_day
           /\ <<opportunities[1].source_id, opportunities[1].destination_id>>
                  \notin processed_connections
           /\ ~(/\ keeps_source_floor(opportunities[1], facilities_delta)
                /\ keeps_destination_ceiling(opportunities[1], facilities_delta)))
          => /\ opportunities' = Tail(opportunities)
             /\ UNCHANGED <<facilities_delta, processed_connections, movements,
                            movement_count>>]_vars

\* after the first commit: an opportunity that was valid against the empty
\* accumulator is not valid any more and has left the pool, others remain
C25_Witness ==
    /\ pc = "select"
    /\ Len(movements) = 1
    /\ opportunities # <<>>
    /\ \E o \in generated :
          /\ keeps_source_floor(o, ZeroDelta) /\ keeps_destination_ceiling(o, ZeroDelta)
          /\ ~(keeps_source_floor(o, facilities_delta)
               /\ keeps_destination_ceiling(o, facilities_delta))
          /\ o \notin Range(opportunities)

(***************************************************************************)
(* What generation produces                                                *)
(***************************************************************************)
\* the least of a non-empty set of integers
least(S) == CHOOSE x \in S : \A y \in S : x <= y

\* opp is what the generation rule gives for demand over link, against the
\* all-zero accumulator: the least of the four bounds (in hundredths), and at
\* least min_movement
is_safe_quantity_for(opp, demand, link) ==
    /\ opp.quantity * 100 =
          least({ demand.remaining_quantity * 100,
                  level[link.source_id] * max_fill_ratio,
                  link.max_capacity * max_fill_ratio,
                  net.capacity[demand.customer_id] * max_fill_ratio
                      - level[demand.customer_id] * 100 })
    /\ opp.quantity >= min_movement

\* the demands of ds the pass generates opportunities into opp's destination for
planned_for(opp, ds) ==
    { d \in Range(ds) : d.remaining_quantity > 0 /\ d.customer_id = opp.destination_id }

\* C26: every opportunity generated has the quantity min(remaining_quantity,
\* source_effective * 0.88, max_capacity * 0.88, capacity * 0.88 -
\* destination_effective) of some demand at its destination and of its link,
\* and that quantity is at least min_movement (75); so every committed movement
\* has min_movement <= quantity <= 0.88 * max_capacity of its link and at most
\* the remaining quantity of a demand it was generated for.
C26_SafeQuantity ==
    /\ [][pass_begins =>
            \A k \in 1..Len(opportunities') :
                LET opp == opportunities'[k]
                    link == connections_map(net, opp.source_id, opp.destination_id)
                IN \E d \in planned_for(opp, active_demands) :
                       is_safe_quantity_for(opp, d, link)]_vars
    /\ [](\A i \in 1..Len(movements) :
            LET link == connection_by_id(net, movements[i].connection_id)
            IN /\ min_movement <= movements[i].quantity
               /\ movements[i].quantity * 100 <= link.max_capacity * max_fill_ratio
               /\ \E d \in Range(before.active_demands) :
                     /\ d.customer_id = link.destination_id
                     /\ movements[i].quantity <= d.remaining_quantity)

\* a committed movement whose quantity is the room left at its destination,
\* less than the demand, the source bound and the link bound
C26_Witness ==
    /\ pc = "submit"
    /\ \E i \in 1..Len(movements) :
          LET link == connection_by_id(net, movements[i].connection_id)
              q100 == movements[i].quantity * 100
          IN /\ q100 = net.capacity[link.destination_id] * max_fill_ratio
                         - level[link.destination_id] * 100
             /\ q100 < link.max_capacity * max_fill_ratio
             /\ q100 < level[link.source_id] * max_fill_ratio
             /\ \A d \in planned_for([destination_id |-> link.destination_id], active_demands) :
                    q100 < d.remaining_quantity * 100

(***************************************************************************)
(* The source floor                                                        *)
(***************************************************************************)
\* C27: during and at the end of every planning pass, every facility that is
\* the source of a committed movement has a projected level (current level
\* plus accumulated delta) of at least min_fill_ratio (0.15) of its capacity;
\* an opportunity whose commit would take its source below that floor is
\* dropped from the pool, and the pass goes on: it raises nothing, and it
\* stops only when the pool is empty or the cap is reached.
C27_SourceFloorKept ==
    /\ [](pc \in {"select", "submit"} =>
            \A i \in 1..Len(movements) :
                LET source == movement_pair(movements[i])[1]
                IN (level[source] + facilities_delta[source]) * 100
                       >= net.capacity[source] * min_fill_ratio)
    /\ [][(/\ pc = "select"
           /\ opportunities # <<>> /\ movement_count < max_movements_per_day
           /\ <<opportunities[1].source_id, opportunities[1].destination_id>>
                  \notin processed_connections
           /\ ~keeps_source_floor(opportunities[1], facilities_delta))
          => \/ /\ pc' = "select"
                /\ opportunities' = Tail(opportunities)
                /\ movements' = movements
             \/ pc' = "teardown" /\ stopped_by' \in {"interrupt", "exception"}
                   /\ opportunities' = opportunities]_vars
    /\ [](pc = "submit" => opportunities = <<>> \/ movement_count = max_movements_per_day)

\* a pass that dropped an opportunity for the source floor and committed a
\* movement afterwards
C27_Witness ==
    /\ pc = "submit"
    /\ movements # <<>>
    /\ \E o \in generated :
          /\ ~keeps_source_floor(o, ZeroDelta)
          /\ \A k \in 1..Len(opportunities) : opportunities[k] # o
          /\ \E i \in 1..Len(movements) :
                LET link == connection_by_id(net, movements[i].connection_id)
                    score == score_opportunity(net, link, movements[i].quantity,
                                 level[link.source_id], level[link.destination_id])
                IN score > o.score

(***************************************************************************)
(* The order of the demands                                                *)
(***************************************************************************)
\* the combined score 0.4 urgency + 0.3 efficiency + 0.2 progress + 0.1 size of
\* demand d on the given day, times 10, as a fixed-point number
combined_score(d, day) ==
    LET urgency == IF d.end_delivery_day <= day THEN FScale
                   ELSE FDiv(1, (d.end_delivery_day - day) + 1)
        progress == FScale - FDiv(d.remaining_quantity, d.quantity)
        size == IF d.remaining_quantity >= SizeNormalizer THEN FScale
                ELSE FDiv(d.remaining_quantity, SizeNormalizer)
    IN 4 * urgency + 3 * expected_efficiency(net, d.customer_id) + 2 * progress + size

\* the step on which create_movements prioritises, generates and sorts
pass_prioritises == pc = "loop" /\ pc' = "select"

\* C28: _prioritize_demands returns the input demands with remaining_quantity
\* > 0 and no other, each once, in an order of non-increasing combined score
\* 0.4 urgency + 0.3 efficiency + 0.2 progress + 0.1 size, where urgency is 1
\* when end_delivery_day <= current_day and 1 / (days_left + 1) otherwise.
C28_PrioritizedByScore ==
    [][pass_prioritises =>
         /\ \A i \in 1..Len(active_demands) :
               Cardinality({k \in 1..Len(prioritized_demands') :
                               prioritized_demands'[k] = active_demands[i]})
                   = IF active_demands[i].remaining_quantity > 0 THEN 1 ELSE 0
         /\ Range(prioritized_demands') \subseteq Range(active_demands)
         /\ \A k \in 1..(Len(prioritized_demands') - 1) :
               combined_score(prioritized_demands'[k], current_day)
                   >= combined_score(prioritized_demands'[k + 1], current_day)]_vars

\* a call whose input holds a demand without remaining quantity and two live
\* demands that come out in the other order, the more urgent one first
C28_Witness ==
    /\ pc = "select"
    /\ \E i \in 1..Len(active_demands) : active_demands[i].remaining_quantity = 0
    /\ Len(prioritized_demands) = 2
    /\ \E i, j \in 1..Len(active_demands) :
          /\ i < j
          /\ prioritized_demands = <<active_demands[j], active_demands[i]>>
          /\ combined_score(active_demands[j], current_day)
                 > combined_score(active_demands[i], current_day)

\* the opportunities in the order the generation loop appends them, for the
\* demands in the order ds
RECURSIVE generation_order(_)
generation_order(ds) ==
    IF ds = <<>> THEN <<>>
    ELSE generate_opportunities_for_demand(net, level, ZeroDelta, ds[1])
         \o generation_order(Tail(ds))

\* the position of demand d in the sequence ds
position(d, ds) == CHOOSE k \in 1..Len(ds) : ds[k] = d

\* two active demands (two different records) with equal combined score come
\* out of _prioritize_demands in the order they have in the active set
demand_ties_keep_order ==
    \A i, j \in 1..Len(active_demands) :
        (/\ i < j
         /\ active_demands[i] # active_demands[j]
         /\ active_demands[i].remaining_quantity > 0
         /\ active_demands[j].remaining_quantity > 0
         /\ combined_score(active_demands[i], current_day)
                = combined_score(active_demands[j], current_day))
        => position(active_demands[i], prioritized_demands')
               < position(active_demands[j], prioritized_demands')

\* the opportunities of one score stand in the pool in the order they were
\* generated in
opportunity_ties_keep_order ==
    \A k \in 1..Len(opportunities') :
        LET same(o) == o.score = opportunities'[k].score
        IN SelectSeq(opportunities', same)
               = SelectSeq(generation_order(prioritized_demands'), same)

\* C29: ties are broken by insertion order: demands of equal combined score
\* keep the relative order of the active set in the output of
\* _prioritize_demands, and opportunities of equal score are considered by the
\* select loop in the order in which they were generated.
C29_TiesKeepOrder ==
    [][pass_prioritises => demand_ties_keep_order /\ opportunity_ties_keep_order]_vars

\* the opportunities of the sequence opps from source s into destination d
on_pair(opps, s, d) ==
    {k \in 1..Len(opps) : opps[k].source_id = s /\ opps[k].destination_id = d}

\* C30: one invocation of _generate_opportunities_for_demand returns at most
\* one opportunity per (source, destination) pair, each with the demand's
\* customer as destination and a source that has a direct link into it;
\* facilities without such a link yield none. So the pool of a pass holds, per
\* pair, at most one opportunity for each demand it plans for, and only direct
\* links.
C30_OnePerDirectLink ==
    /\ [](pc = "loop" =>
            \A i \in 1..Len(active_demands) :
                active_demands[i].remaining_quantity > 0 =>
                    LET demand == active_demands[i]
                        opps == generate_opportunities_for_demand(net, level, ZeroDelta, demand)
                    IN \A s \in net.facilities :
                          /\ \A d \in net.facilities \ {demand.customer_id} :
                                on_pair(opps, s, d) = {}
                          /\ Cardinality(on_pair(opps, s, demand.customer_id)) <= 1
                          /\ <<s, demand.customer_id>> \notin Edges(net)
                                => on_pair(opps, s, demand.customer_id) = {})
    /\ [][pass_prioritises =>
            \A s, d \in net.facilities :
                /\ Cardinality(on_pair(opportunities', s, d))
                       <= Cardinality({i \in 1..Len(active_demands) :
                              /\ active_demands[i].remaining_quantity > 0
                              /\ active_demands[i].customer_id = d})
                /\ <<s, d>> \notin Edges(net) => on_pair(opportunities', s, d) = {}]_vars

\* one demand at A, whose pair (R, A) is listed twice among the links: the pool
\* holds one opportunity from R and one from T
C30_Witness ==
    /\ pc = "select"
    /\ net = RepeatedPairNet
    /\ active_demands = <<dA>>
    /\ Len(opportunities) = 2
    /\ Cardinality(on_pair(opportunities, "R", "A")) = 1
    /\ Cardinality(on_pair(opportunities, "T", "A")) = 1
    /\ movements = <<>>

(***************************************************************************)
(* Demands the planner should leave alone                                  *)
(***************************************************************************)
\* the demands of the active set with remaining quantity whose customer no
\* storage facility reaches, so that their efficiency score is 0
unreachable_demands ==
    { d \in Range(active_demands) :
        /\ d.remaining_quantity > 0
        /\ demand_efficiency(net, d) = 0
        /\ \A s \in storage_facilities(net) : d.customer_id \notin Reachable(net, s) }

\* C31: a demand whose destination no storage facility reaches (efficiency
\* score 0) is skipped for the day: the pass commits no movement into its
\* customer. (That it stays in the active set until its window is over is the
\* cleanup rule of C10.)
C31_UnreachableSkipped ==
    pc \in {"select", "submit"} =>
        \A d \in unreachable_demands :
            \A i \in 1..Len(movements) :
                movement_pair(movements[i])[2] # d.customer_id

C33_NoOverDelivery ==
    pc \in {"select", "submit"} =>
        \A i \in 1..Len(active_demands) :
            LET demand == active_demands[i]
            IN (/\ demand.remaining_quantity > 0
                /\ demands_at(demand.customer_id) = {i})
               => /\ received_by(demand.customer_id, movements) <= demand.remaining_quantity
                  /\ received_by(demand.customer_id, movements) <= demand.quantity

\* C34: create_movements commits a movement for a demand only on a day inside
\* the demand's inclusive delivery window: every movement of a pass goes to a
\* customer with a demand of the active set that has remaining quantity and
\* start_delivery_day <= current_day <= end_delivery_day.
C34_OnlyInsideWindow ==
    pc \in {"select", "submit"} =>
        \A i \in 1..Len(movements) :
            \E d \in Range(active_demands) :
                /\ d.customer_id = movement_pair(movements[i])[2]
                /\ d.remaining_quantity > 0
                /\ d.start_delivery_day <= current_day
                /\ current_day <= d.end_delivery_day

(***************************************************************************)
(* Termination of the run                                                  *)
(***************************************************************************)
\* more than any pool holds
PoolBound == 10 ^ 3

\* how far run() has got: the position in the day loop, counted in statements
\* from the first day (update and cleanup still belong to the day whose
\* response is being applied, although the day counter is incremented already)
progress ==
    CASE pc = "loop" -> current_day * 8
      [] pc = "select" -> current_day * 8 + 1
      [] pc = "submit" -> current_day * 8 + 2
      [] pc = "await" -> current_day * 8 + 3
      [] pc = "process" -> current_day * 8 + 4
      [] pc = "update" -> (current_day - 1) * 8 + 5
      [] pc = "cleanup" -> (current_day - 1) * 8 + 6
      [] OTHER -> 0

\* a natural number that every step of the run makes smaller: what is left of
\* the attempts of start_session, of the days, of the statements of the day
\* and, inside the select loop, of the pool
rank ==
    CASE pc = "done" -> 0
      [] pc = "teardown" -> 1
      [] pc \in {"start", "starting"} ->
            (total_days * 8 + 10) * PoolBound
                + (IF pc = "start" THEN max_retries + 2 ELSE max_retries + 1 - attempts_made)
      [] OTHER ->
            2 + (total_days * 8 + 8 - progress) * PoolBound
              + (IF pc = "select" THEN Len(opportunities) ELSE 0)

\* the run is not stuck: at every point before its end some statement can be
\* executed (in the day loop, the while condition holds or LoopEnd is enabled)
can_proceed ==
    CASE pc = "done" -> TRUE
      [] pc = "loop" -> day_loop_condition(current_day) \/ ENABLED LoopEnd
      [] pc = "starting" -> ENABLED (StartSessionOk \/ StartSessionRetry \/ StartSessionFail)
      [] pc = "select" -> ENABLED (SelectSkip \/ SelectDrop \/ SelectCommit \/ SelectExit)
      [] pc = "await" -> ENABLED (MakeMoveOk \/ MakeMoveFail \/ MakeMoveEmptyObject)
      [] OTHER -> ENABLED (StartSessionCleanup \/ MakeMoveSend \/ ProcessRoundResult
                             \/ UpdateFacilityLevels \/ CleanupCompletedDemands \/ EndSession)

\* C35: the run terminates: it is never stuck before its end and every step
\* lowers a natural number, in the select loop because every iteration takes
\* at least one opportunity out of the pool. When the session started and the
\* day loop ran to its end (every round was answered with a usable response and
\* nothing was raised), exactly total_days rounds were submitted, for the days
\* 0 to total_days - 1 in this order, the day counter is total_days and the
\* last request is the end-session call.
C35_RunCompletes ==
    /\ [](rank >= 0 /\ can_proceed)
    /\ [][rank' < rank]_vars
    /\ [][pc = "select" /\ pc' = "select" =>
            Len(opportunities') < Len(opportunities)]_vars
    /\ [](pc = "done" /\ last_answer = "ok" => stopped_by # "none")
    /\ [](pc = "done" /\ stopped_by = "completed" =>
            /\ last_answer = "ok"
            /\ Len(rounds) = total_days
            /\ \A i \in 1..Len(rounds) : rounds[i].day = i - 1
            /\ current_day = total_days
            /\ in_flight = {}
            /\ calls[Len(calls)].op = "end"
            /\ calls[Len(calls) - 1].op = "round")

\* a run that completed all its days, with a day of several movements
C35_Witness ==
    /\ pc = "done"
    /\ stopped_by = "completed"
    /\ Len(rounds) = total_days
    /\ \E i \in 1..Len(rounds) : Len(rounds[i].movements) >= 2

(***************************************************************************)
(* Which responses stop the run                                            *)
(***************************************************************************)
\* the step in which make_move returns to run()
round_answered == pc = "await" /\ in_flight' # in_flight

\* C36: only an absent or unparseable response (make_move returns None) stops
\* the run at the submission; every response that was received with status 200
\* and parsed, the empty object included, is applied: the day counter is
\* incremented by one and the day loop continues.
C36_ParsedResponseApplied ==
    /\ [][round_answered =>
            /\ pc' = "teardown" => result' = None
            /\ result' # None => pc' = "process"]_vars
    /\ [][pc = "process" /\ pc' # "teardown" =>
            /\ current_day' = current_day + 1
            /\ pc' = "update"]_vars

====
